---- MODULE Spec2Model ----
(***************************************************************************)
(* Model of the nabia engine (src/core/engine/engine.go): the NabiaDB      *)
(* record map with its Write validation, and the gob snapshot written by   *)
(* saveToFile and read back by loadFromFile / NewNabiaDB.                  *)
(*                                                                         *)
(* A Go []byte is a slice header over a backing array, so the model keeps  *)
(* a heap of backing arrays: a NabiaRecord value copies the header, never  *)
(* the bytes.  A ContentType is a Go string, modelled as the sequence of   *)
(* its characters so that the regular expression of Write is computed.     *)
(***************************************************************************)
EXTENDS Integers, Sequences, FiniteSets, TLC

\* ---------------------------------------------------------------- bounds
\* longest payload a caller builds
MaxBytes == 1
\* goroutines that call the store at once
MaxThreads == 3

\* ---------------------------------------------------------------- inputs
\* the keys a store can hold, in the order addresses are compared below
KeyOrder == <<"A", "B">>
StoredKeys == {KeyOrder[i] : i \in DOMAIN KeyOrder}
Keys == {""} \cup StoredKeys
Bytes == {1, 2}
\* the payloads callers build; other bytes get there by assignment
ByteSeqs == {[i \in 1..n |-> 1] : n \in 0..MaxBytes}

\* the data argument of NewNabiaRecord: a nil slice or a slice of bytes
NilData == [nil |-> TRUE, bytes |-> <<>>]
Payloads == {NilData} \cup {[nil |-> FALSE, bytes |-> b] : b \in ByteSeqs}

\* letters and digits, the class [a-zA-Z0-9] of the pattern
Alnum == {"a", "j", "n", "p", "t", "7"}
ContentTypes ==
    { <<>>,
      <<"t", "/", "p">>,
      <<"a", "/", "j", ";">>,
      <<"n", "-", "t">>,
      <<"t", "/">>,
      <<"/", "p">> }

\* the Write calls made between other operations: valid records with the
\* empty and with the longest payload, and one call that breaks each rule of
\* Write
WriteCall(key, data, ct) == [key |-> key, data |-> data, ct |-> ct]
SomeByteSeqs == {b \in ByteSeqs : Len(b) \in {0, MaxBytes}}
SomeWrites ==
    {WriteCall(k, [nil |-> FALSE, bytes |-> b], ct) :
        k \in StoredKeys, b \in SomeByteSeqs, ct \in {<<"t", "/", "p">>, <<"a", "/", "j", ";">>}}
    \cup {WriteCall("", [nil |-> FALSE, bytes |-> <<>>], <<"t", "/", "p">>),
          WriteCall("A", NilData, <<"t", "/", "p">>),
          WriteCall("B", [nil |-> FALSE, bytes |-> <<>>], <<>>),
          WriteCall("A", [nil |-> FALSE, bytes |-> <<>>], <<"n", "-", "t">>)}

\* ---------------------------------------------------------------- errors
NoError == "nil"
ErrEmptyKey == "key cannot be empty"
ErrNilValue == "value cannot be nil"
ErrEmptyContentType == "Content-Type cannot be empty"
ErrInvalidContentType == "Content-Type is not valid"
ErrNotExist == "key doesn't exist"
ErrStat == "stat failed"
ErrCreate == "create failed"
ErrOpen == "no such file or directory"
ErrRead == "read failed"
ErrDecode == "decode failed"
\* log.Fatalf: nothing is returned, the process ends
Fatal == "exit status 1"

\* ---------------------------------------------------------------- values
NilSlice == [nil |-> TRUE, arr |-> 0]
NabiaRecord(raw, ct) == [RawData |-> raw, ContentType |-> ct]
ZeroRecord == NabiaRecord(NilSlice, <<>>)

\* addresses of backing arrays: enough for every record the store, the caller,
\* the history and a snapshot being decoded can reference at once
Arrays == 1..(3 * Len(KeyOrder) + 1)

VARIABLES
    Records,   \* ns.Records: key -> NabiaRecord (the record *NabiaRecord points to)
    heap,      \* backing array -> its bytes (<<>> when unused)
    file,      \* what the file at ns.location holds
    db,        \* "open", "failed" (NewNabiaDB returned an error), "fatal" (log.Fatalf)
    held,      \* the caller's NabiaRecord variable
    last,      \* the last call and what it returned
    input,     \* the record argument of the last Write that was logged
    written,   \* history: per key, the Record last put there
    saved,     \* history: the mapping the last complete saveToFile wrote
    proc,      \* goroutines: the calls each one makes and where it is in them
    hist       \* history of the goroutines' steps on the map

vars == <<Records, heap, file, db, held, last, input, written, saved, proc, hist>>

\* what the steps of a single caller leave alone
threadVars == <<proc, hist>>

\* the bytes a slice header designates
BytesOf(h, sl) == IF sl.nil \/ sl.arr = 0 THEN <<>> ELSE h[sl.arr]

\* a Record as a value: payload presence, payload bytes, media type
Content(h, r) ==
    [nil |-> r.RawData.nil, bytes |-> BytesOf(h, r.RawData), ct |-> r.ContentType]

ContentMap(h, recs) == [k \in DOMAIN recs |-> Content(h, recs[k])]

\* ------------------------------------------------------------ sync.Map
MapLoad(m, key) ==
    IF key \in DOMAIN m THEN [value |-> m[key], ok |-> TRUE]
    ELSE [value |-> ZeroRecord, ok |-> FALSE]

\* sync.Map.LoadOrStore in place of Store: a key that is there keeps its value
MapStore_KeepExisting(m, key, value) ==
    [k \in DOMAIN m \cup {key} |-> IF k \in DOMAIN m THEN m[k] ELSE value]

\* the payload assigned into the record the key points to, field by field:
\* the Content-Type of that record stays
MapStore_InPlace(m, key, value) ==
    [k \in DOMAIN m \cup {key} |->
        IF k # key THEN m[k]
        ELSE IF key \in DOMAIN m THEN [value EXCEPT !.ContentType = m[key].ContentType]
        ELSE value]

MapStore(m, key, value) ==
    [k \in DOMAIN m \cup {key} |-> IF k = key THEN value ELSE m[k]]

\* sync.Map.Clear in place of Delete: every key goes
MapDelete_Clear(m, key) == [k \in {} |-> m[k]]

MapDelete(m, key) == [k \in DOMAIN m \ {key} |-> m[k]]

EmptyMap == [k \in {} |-> ZeroRecord]

\* ------------------------------------------------------------ regexp
\* length of the run of [a-zA-Z0-9] characters of s that starts at index i
RECURSIVE AlnumRun(_, _)
AlnumRun(s, i) ==
    IF i > Len(s) \/ s[i] \notin Alnum THEN 0 ELSE 1 + AlnumRun(s, i + 1)

\* regexp.MustCompile(`^[a-zA-Z0-9]+/[a-zA-Z0-9]+`).MatchString(s)
MatchString(s) ==
    LET n == AlnumRun(s, 1)
    IN  /\ n >= 1
        /\ n + 1 <= Len(s)
        /\ s[n + 1] = "/"
        /\ AlnumRun(s, n + 2) >= 1

\* ------------------------------------------------------------ primitives
Exists(recs, key) == MapLoad(recs, key).ok

\* the ok of Records.Load not looked at: no error for a key that is not there
Read_IgnoresOk(recs, key) == [record |-> MapLoad(recs, key).value, err |-> NoError]

Read(recs, key) ==
    LET l == MapLoad(recs, key)
    IN  IF l.ok THEN [record |-> l.value, err |-> NoError]
        ELSE [record |-> ZeroRecord, err |-> ErrNotExist]

\* the Content-Type checked for emptiness before the payload is checked for nil
WriteErr_ContentTypeFirst(key, value) ==
    IF key = "" THEN ErrEmptyKey
    ELSE IF value.ContentType = <<>> THEN ErrEmptyContentType
    ELSE IF value.RawData.nil THEN ErrNilValue
    ELSE IF ~MatchString(value.ContentType) THEN ErrInvalidContentType
    ELSE NoError

\* the error Write returns
WriteErr(key, value) ==
    IF key = "" THEN ErrEmptyKey
    ELSE IF value.RawData.nil THEN ErrNilValue
    ELSE IF value.ContentType = <<>> THEN ErrEmptyContentType
    ELSE IF ~MatchString(value.ContentType) THEN ErrInvalidContentType
    ELSE NoError

\* the record stored before its Content-Type has been matched
WriteRecords_StoreBeforeMatch(recs, key, value) ==
    IF WriteErr(key, value) \in {NoError, ErrInvalidContentType}
    THEN MapStore(recs, key, value) ELSE recs

\* an update that keeps the Content-Type of the record it replaces
WriteRecords_KeepContentType(recs, key, value) ==
    IF WriteErr(key, value) # NoError THEN recs
    ELSE IF key \in DOMAIN recs
    THEN MapStore(recs, key, [value EXCEPT !.ContentType = recs[key].ContentType])
    ELSE MapStore(recs, key, value)

\* the map Write leaves
WriteRecords(recs, key, value) ==
    IF WriteErr(key, value) = NoError THEN MapStore(recs, key, value) ELSE recs

\* a zero record stored over the key in place of its deletion
DestroyRecords_Tombstone(recs, key) == MapStore(recs, key, ZeroRecord)

DestroyRecords(recs, key) == MapDelete(recs, key)

\* ------------------------------------------------------------ heap
Absent == [by |-> "none", arr |-> 0, nil |-> TRUE, bytes |-> <<>>, ct |-> <<>>]

\* every place an address can sit, in a fixed order (0: no array there)
Places(recs, hd, w) ==
    [i \in DOMAIN KeyOrder |->
        IF KeyOrder[i] \in DOMAIN recs THEN recs[KeyOrder[i]].RawData.arr ELSE 0]
    \o <<hd.RawData.arr>>
    \o [i \in DOMAIN KeyOrder |-> w[KeyOrder[i]].arr]

\* the backing arrays some live value references
Refs(recs, hd, w) ==
    LET pl == Places(recs, hd, w) IN {pl[i] : i \in DOMAIN pl} \ {0}

\* Addresses carry no meaning beyond identity.  After every step the live
\* arrays are renumbered 1, 2, ... in the order of Places and every other
\* array is dropped (garbage collection), so that two heaps that differ only
\* in where the allocator put things are one state.
Renumber(recs, hd, w) ==
    LET pl == Places(recs, hd, w)
        first(a) == CHOOSE i \in DOMAIN pl : pl[i] = a /\ \A j \in 1..(i - 1) : pl[j] # a
    IN  [a \in Refs(recs, hd, w) |->
            Cardinality({pl[j] : j \in 1..(first(a) - 1)} \ {0}) + 1]

Moved(sl, to) == IF sl.arr = 0 THEN sl ELSE [sl EXCEPT !.arr = to[sl.arr]]

Install(recs, hd, w, h) ==
    \E st \in {[r |-> recs, hd |-> hd, w |-> w, h |-> h]} :
    \E to \in {Renumber(st.r, st.hd, st.w)} :
        /\ Records' = [k \in DOMAIN st.r |->
                          [st.r[k] EXCEPT !.RawData = Moved(st.r[k].RawData, to)]]
        /\ held' = [st.hd EXCEPT !.RawData = Moved(st.hd.RawData, to)]
        /\ written' = [k \in DOMAIN st.w |->
                          IF st.w[k].arr = 0 THEN st.w[k]
                          ELSE [st.w[k] EXCEPT !.arr = to[st.w[k].arr]]]
        /\ heap' = [n \in Arrays |->
                      IF \E a \in DOMAIN to : to[a] = n
                      THEN st.h[CHOOSE a \in DOMAIN to : to[a] = n]
                      ELSE <<>>]

\* the allocator: the members of need get the first addresses not in use
Allocate(need) ==
    LET used == Cardinality(Refs(Records, held, written))
        before(k) == Cardinality({i \in DOMAIN KeyOrder :
                        /\ KeyOrder[i] \in need
                        /\ \E j \in DOMAIN KeyOrder : KeyOrder[j] = k /\ i < j})
    IN  [k \in need |-> used + before(k) + 1]

\* ------------------------------------------------------------ gob
\* encoding/gob leaves out of a struct every field that holds its zero
\* value, and a []byte of length 0 counts as zero whether or not it is nil
GobEncodeRecord(h, r) ==
    [fields |-> (IF Len(BytesOf(h, r.RawData)) > 0 THEN {"RawData"} ELSE {})
                \cup (IF r.ContentType # <<>> THEN {"ContentType"} ELSE {}),
     RawData |-> BytesOf(h, r.RawData),
     ContentType |-> r.ContentType]

GobEncode(h, data) == [k \in DOMAIN data |-> GobEncodeRecord(h, data[k])]

\* the decoder leaves a field that was not sent at its zero value: nil
GobDecodeRecord(e, a) ==
    NabiaRecord(IF "RawData" \in e.fields THEN [nil |-> FALSE, arr |-> a] ELSE NilSlice,
                IF "ContentType" \in e.fields THEN e.ContentType ELSE <<>>)

NoData == [k \in {} |-> GobEncodeRecord(heap, ZeroRecord)]
AbsentFile == [kind |-> "absent", data |-> NoData]
EmptyFile == [kind |-> "empty", data |-> NoData]
PartialFile == [kind |-> "partial", data |-> NoData]
GobFile(enc) == [kind |-> "gob", data |-> enc]

\* ------------------------------------------------------------ snapshot
\* the call that fails: os.Create; writer.Flush() before any byte reached the
\* file ("flush") or after some did ("short"); os.Open; a read while decoding;
\* os.Stat; the os.Create of saveToFile inside NewNabiaDB ("save")
SaveFaults == {"none", "create", "flush", "short"}
LoadFaults == {"none", "open", "read"}
NewFaults == {"none", "stat", "create", "save", "flush", "short", "open", "read"}

\* saveToFile: the file it leaves and the error it returns.  os.Create
\* truncates; the bytes reach the file in the deferred writer.Flush(), whose
\* error is dropped after the return value has been fixed by Encode.  (Encode
\* itself writes to the file only once bufio's buffer of 4096 bytes is full,
\* which snapshots of the payloads built here never fill.)
saveToFile(recs, h, f, fault) ==
    IF fault = "create" THEN [file |-> f, err |-> ErrCreate]
    ELSE IF fault = "flush" THEN [file |-> EmptyFile, err |-> NoError]
    ELSE IF fault = "short" THEN [file |-> PartialFile, err |-> NoError]
    ELSE [file |-> GobFile(GobEncode(h, recs)), err |-> NoError]

\* the records stored one by one while the stream is decoded: a read that
\* fails leaves the keys decoded before it in the map
loadFromFile_StoresWhileDecoding(recs, h, f, fault) ==
    IF f.kind = "absent" \/ fault = "open"
    THEN [Records |-> recs, heap |-> h, err |-> ErrOpen]
    ELSE IF f.kind # "gob" THEN [Records |-> recs, heap |-> h, err |-> ErrDecode]
    ELSE LET got == IF fault = "read" THEN DOMAIN f.data \cap {KeyOrder[1]}
                    ELSE DOMAIN f.data
             need == {k \in got : "RawData" \in f.data[k].fields}
             at == Allocate(need)
             addr(k) == IF k \in need THEN at[k] ELSE 0
         IN  [Records |-> [k \in DOMAIN recs \cup got |->
                              IF k \in got
                              THEN GobDecodeRecord(f.data[k], addr(k))
                              ELSE recs[k]],
              heap |-> [a \in Arrays |->
                          IF \E k \in need : at[k] = a
                          THEN f.data[CHOOSE k \in need : at[k] = a].RawData
                          ELSE h[a]],
              err |-> IF fault = "read" THEN ErrRead ELSE NoError]

\* loadFromFile: the map and heap it leaves and the error it returns
loadFromFile(recs, h, f, fault) ==
    IF f.kind = "absent" \/ fault = "open"
    THEN [Records |-> recs, heap |-> h, err |-> ErrOpen]
    ELSE IF fault = "read" THEN [Records |-> recs, heap |-> h, err |-> ErrRead]
    ELSE IF f.kind # "gob" THEN [Records |-> recs, heap |-> h, err |-> ErrDecode]
    ELSE LET need == {k \in DOMAIN f.data : "RawData" \in f.data[k].fields}
             at == Allocate(need)
             addr(k) == IF k \in need THEN at[k] ELSE 0
         IN  [Records |-> [k \in DOMAIN recs \cup DOMAIN f.data |->
                              IF k \in DOMAIN f.data
                              THEN GobDecodeRecord(f.data[k], addr(k))
                              ELSE recs[k]],
              heap |-> [a \in Arrays |->
                          IF \E k \in need : at[k] = a
                          THEN f.data[CHOOSE k \in need : at[k] = a].RawData
                          ELSE h[a]],
              err |-> NoError]

\* checkOrCreateFile: whether the file existed, the error, the file it leaves
checkOrCreateFile(f, fault) ==
    IF fault = "stat" THEN [exists |-> FALSE, err |-> ErrStat, file |-> f]
    ELSE IF f.kind # "absent" THEN [exists |-> TRUE, err |-> NoError, file |-> f]
    ELSE IF fault = "create" THEN [exists |-> FALSE, err |-> ErrCreate, file |-> f]
    ELSE [exists |-> FALSE, err |-> NoError, file |-> EmptyFile]

\* NewNabiaDB(location): what the constructor leaves and returns.  The error
\* of loadFromFile is not looked at; an error of saveToFile ends the process.
NewNabiaDB(f, h, fault) ==
    LET c == checkOrCreateFile(f, fault)
        l == loadFromFile(EmptyMap, h, c.file, IF fault \in LoadFaults THEN fault ELSE "none")
        s == saveToFile(EmptyMap, h, c.file,
                        IF fault = "save" THEN "create"
                        ELSE IF fault \in {"flush", "short"} THEN fault ELSE "none")
    IN  IF c.err # NoError
        THEN [db |-> "failed", Records |-> EmptyMap, heap |-> h, file |-> c.file,
              err |-> c.err, loaded |-> FALSE]
        ELSE IF c.exists
        THEN [db |-> "open", Records |-> l.Records, heap |-> l.heap, file |-> c.file,
              err |-> NoError, loaded |-> l.err = NoError]
        ELSE IF s.err # NoError
        THEN [db |-> "fatal", Records |-> EmptyMap, heap |-> h, file |-> s.file,
              err |-> Fatal, loaded |-> FALSE]
        ELSE [db |-> "open", Records |-> EmptyMap, heap |-> h, file |-> s.file,
              err |-> NoError, loaded |-> FALSE]

\* ------------------------------------------------------------ state
\* a call and what it returned; had: whether key held a record when it was made
Call(op, key, err, ok) ==
    [op |-> op, key |-> key, err |-> err, ok |-> ok, had |-> key \in DOMAIN Records]

NoSave == [valid |-> FALSE, data |-> ContentMap(heap, EmptyMap)]

\* ------------------------------------------------------------ goroutines
Threads == 1..MaxThreads

\* the key that goroutine t has to itself (Key_t), the first being "A"
KeyName(t) == <<"A", "B", "C", "D", "E", "F">>[t]
ThreadKeys == {KeyName(t) : t \in Threads}

\* a call a goroutine makes; bytes: what the payload it built holds
Op(op, key, value, bytes) == [op |-> op, key |-> key, value |-> value, bytes |-> bytes]

\* the map[string]*NabiaRecord saveToFile fills, and the keys Range has visited
NoSnapshot == [data |-> EmptyMap, visited |-> {}]

\* a goroutine: its calls, the call it is in, its place in that call, the
\* record Read loaded, the map saveToFile fills, and what its calls returned
Goroutine(prog) ==
    [prog |-> prog, at |-> 1, pc |-> "call", record |-> ZeroRecord,
     snap |-> NoSnapshot, rets |-> <<>>]

\* history: per key, the Records that Store steps put there, the goroutine
\* of the last Store step, and what the key held while a saveToFile ran
NoHistory ==
    [stored |-> [k \in ThreadKeys |-> {}],
     lastStore |-> [k \in ThreadKeys |-> 0],
     during |-> [k \in ThreadKeys |-> {}]]

\* NewNabiaDB against a target that does not exist, with no I/O failure
Init ==
    /\ Records = EmptyMap
    /\ heap = [a \in Arrays |-> <<>>]
    /\ file = GobFile(GobEncode(heap, EmptyMap))
    /\ db = "open"
    /\ held = ZeroRecord
    /\ last = Call("NewNabiaDB", "", NoError, TRUE)
    /\ input = Content(heap, ZeroRecord)
    /\ written = [k \in Keys |-> Absent]
    /\ saved = [valid |-> TRUE, data |-> ContentMap(heap, EmptyMap)]
    /\ proc = [t \in Threads |-> Goroutine(<<>>)]
    /\ hist = NoHistory

\* ------------------------------------------------------------ the store
DoExists(key) ==
    /\ db = "open"
    /\ last' = Call("Exists", key, NoError, Exists(Records, key))
    /\ UNCHANGED <<Records, heap, file, db, held, written, saved, input>>
    /\ UNCHANGED threadVars

\* r, err := ns.Read(key); keep: whether the caller holds on to r afterwards
DoRead(key, keep) ==
    LET r == Read(Records, key)
    IN  /\ db = "open"
        /\ Install(Records, IF keep THEN r.record ELSE held, written, heap)
        /\ last' = Call("Read", key, r.err, r.err = NoError)
        /\ UNCHANGED <<file, db, saved, input>>
        /\ UNCHANGED threadVars

\* ns.Write(key, value); keep: whether the caller holds on to value afterwards;
\* log: whether the argument is logged
WriteValue(key, value, h, keep, log) ==
    \E err \in {WriteErr(key, value)} :
        /\ db = "open"
        /\ Install(WriteRecords(Records, key, value),
                   IF keep /\ err = NoError THEN value ELSE held,
                   IF err = NoError
                   THEN [written EXCEPT ![key] =
                            [by |-> "put", arr |-> value.RawData.arr,
                             nil |-> value.RawData.nil,
                             bytes |-> BytesOf(h, value.RawData),
                             ct |-> value.ContentType]]
                   ELSE written,
                   h)
        /\ last' = Call("Write", key, err, err = NoError)
        /\ input' = IF log THEN Content(h, value) ELSE input
        /\ UNCHANGED <<file, db, saved>>
        /\ UNCHANGED threadVars

\* ns.Write(key, *NewNabiaRecord(data, ct)): a record over a fresh array
DoWriteNew(key, data, ct, keep, log) ==
    \E a \in {IF data.nil \/ data.bytes = <<>> THEN 0 ELSE Allocate({key})[key]} :
        LET raw == IF data.nil THEN NilSlice ELSE [nil |-> FALSE, arr |-> a]
            h == IF a = 0 THEN heap ELSE [heap EXCEPT ![a] = data.bytes]
        IN  WriteValue(key, NabiaRecord(raw, ct), h, keep, log)

\* ns.Write(key, r) with the record the caller holds (read back or written before)
DoWriteHeld(key) == WriteValue(key, held, heap, TRUE, FALSE)

DoDestroy(key) ==
    /\ db = "open"
    /\ Install(DestroyRecords(Records, key), held, [written EXCEPT ![key] = Absent], heap)
    /\ last' = Call("Destroy", key, NoError, TRUE)
    /\ UNCHANGED <<file, db, saved, input>>
    /\ UNCHANGED threadVars

\* ------------------------------------------------------------ the caller
\* r.RawData[i] = b on the record the caller holds.  The history follows the
\* array: the payload of a Record passed to Write is what its slice designates.
MutateBytes(i, b) ==
    LET a == held.RawData.arr
    IN  /\ db = "open"
        /\ a # 0
        /\ i \in 1..Len(heap[a])
        /\ heap[a][i] # b
        /\ heap' = [heap EXCEPT ![a][i] = b]
        /\ written' = [k \in Keys |->
                         IF written[k].arr = a
                         THEN [written[k] EXCEPT !.bytes[i] = b]
                         ELSE written[k]]
        /\ last' = Call("MutateBytes", "", NoError, TRUE)
        /\ UNCHANGED <<Records, file, db, held, saved, input>>
        /\ UNCHANGED threadVars

\* r.ContentType = ct on the record the caller holds
MutateContentType(ct) ==
    /\ db = "open"
    /\ held.ContentType # ct
    /\ held' = [held EXCEPT !.ContentType = ct]
    /\ last' = Call("MutateContentType", "", NoError, TRUE)
    /\ UNCHANGED <<Records, heap, file, db, written, saved, input>>
    /\ UNCHANGED threadVars

\* ------------------------------------------------------------ snapshots
DoSave(fault) ==
    LET s == saveToFile(Records, heap, file, fault)
    IN  /\ db = "open"
        /\ file' = s.file
        /\ saved' = IF fault = "none"
                    THEN [valid |-> TRUE, data |-> ContentMap(heap, Records)]
                    ELSE IF s.file # file THEN NoSave ELSE saved
        /\ last' = Call("saveToFile", "", s.err, s.err = NoError)
        /\ UNCHANGED <<Records, heap, db, held, written, input>>
        /\ UNCHANGED threadVars

Hydrated(w, recs, h, f) ==
    [k \in Keys |->
        IF k \in DOMAIN f.data
        THEN [by |-> "put", arr |-> recs[k].RawData.arr, nil |-> recs[k].RawData.nil,
              bytes |-> BytesOf(h, recs[k].RawData), ct |-> recs[k].ContentType]
        ELSE w[k]]

\* ns.loadFromFile(location) on the store in use
DoLoad(fault) ==
    \E l \in {loadFromFile(Records, heap, file, fault)} :
        /\ db = "open"
        /\ Install(l.Records, held,
                   IF l.err = NoError
                   THEN Hydrated(written, l.Records, l.heap, file) ELSE written,
                   l.heap)
        /\ last' = Call("loadFromFile", "", l.err, l.err = NoError)
        /\ UNCHANGED <<file, db, saved, input>>
        /\ UNCHANGED threadVars

\* the embedder constructs a store (again, or in a restarted process)
DoNewNabiaDB(fault) ==
    \E n \in {NewNabiaDB(file, heap, fault)}, none \in {[k \in Keys |-> Absent]} :
        /\ db' = n.db
        /\ file' = n.file
        /\ Install(n.Records,
                   IF n.db = "fatal" THEN ZeroRecord ELSE held,
                   IF n.loaded THEN Hydrated(none, n.Records, n.heap, file) ELSE none,
                   n.heap)
        /\ saved' = IF n.file = file THEN saved
                    ELSE IF n.file.kind = "gob"
                    THEN [valid |-> TRUE, data |-> ContentMap(heap, EmptyMap)]
                    ELSE NoSave
        /\ last' = Call("NewNabiaDB", "", n.err, n.db = "open")
        /\ UNCHANGED input
        /\ UNCHANGED threadVars

\* os.Remove(location) by the embedder
RemoveFile ==
    /\ file.kind # "absent"
    /\ file' = AbsentFile
    /\ saved' = NoSave
    /\ last' = Call("Remove", "", NoError, TRUE)
    /\ UNCHANGED <<Records, heap, db, held, written, input>>
    /\ UNCHANGED threadVars

\* ------------------------------------------------------------ concurrent calls
\* Goroutines share ns.Records and nothing else.  A step is one operation of
\* the sync.Map (Load, Store, Delete, one visit of Range) or a piece of a
\* call that touches only the goroutine's own memory.
Running(t) == proc[t].at <= Len(proc[t].prog)
Current(t) == proc[t].prog[proc[t].at]
In(t, op, pc) == Running(t) /\ proc[t].pc = pc /\ Current(t).op = op

Ret(op, key, err, ok, value) ==
    [op |-> op, key |-> key, err |-> err, ok |-> ok, value |-> value]

\* the call returns
Finish(t, err, ok, value) ==
    [proc EXCEPT ![t].at = @ + 1,
                 ![t].pc = "call",
                 ![t].rets = Append(@, Ret(Current(t).op, Current(t).key, err, ok, value))]

\* the keys the goroutines name in their calls: no other key gets into the map
Named ==
    UNION {{proc[t].prog[i].key : i \in DOMAIN proc[t].prog} : t \in Threads}
        \cap ThreadKeys

\* a saveToFile is between its os.Create and its return
SaveRunning == \E t \in Threads : Running(t) /\ proc[t].pc = "range"

\* what a key holds: no record, or a record
Holds(recs, key) ==
    IF key \in DOMAIN recs THEN [present |-> TRUE, record |-> recs[key]]
    ELSE [present |-> FALSE, record |-> ZeroRecord]

Touch(recs, key) ==
    IF SaveRunning THEN [hist.during EXCEPT ![key] = @ \cup {Holds(recs, key)}]
    ELSE hist.during

\* ns.Exists(key)
ThreadExists(t) ==
    /\ In(t, "Exists", "call")
    /\ proc' = Finish(t, NoError, Exists(Records, Current(t).key), Content(heap, ZeroRecord))
    /\ UNCHANGED <<Records, heap, file, db, held, last, input, written, saved, hist>>

\* ns.Read(key): value, ok := ns.Records.Load(key)
ThreadReadLoad(t) ==
    /\ In(t, "Read", "call")
    /\ \E r \in {Read(Records, Current(t).key)} :
        /\ proc' = IF r.err # NoError
                   THEN Finish(t, r.err, FALSE, Content(heap, r.record))
                   ELSE [proc EXCEPT ![t].pc = "copy", ![t].record = r.record]
        /\ UNCHANGED <<Records, heap, file, db, held, last, input, written, saved, hist>>

\* ns.Read(key): return *record, nil
ThreadReadCopy(t) ==
    /\ Running(t)
    /\ proc[t].pc = "copy"
    /\ proc' = Finish(t, NoError, TRUE, Content(heap, proc[t].record))
    /\ UNCHANGED <<Records, heap, file, db, held, last, input, written, saved, hist>>

\* ns.Write(key, value): the checks, on the goroutine's own copy of value
ThreadWriteCheck(t) ==
    /\ In(t, "Write", "call")
    /\ \E err \in {WriteErr(Current(t).key, Current(t).value)} :
        /\ proc' = IF err # NoError
                   THEN Finish(t, err, FALSE, Content(heap, Current(t).value))
                   ELSE [proc EXCEPT ![t].pc = "store"]
        /\ UNCHANGED <<Records, heap, file, db, held, last, input, written, saved, hist>>

\* ns.Write(key, value): ns.Records.Store(key, &value)
ThreadWriteStore(t) ==
    /\ Running(t)
    /\ proc[t].pc = "store"
    /\ \E op \in {Current(t)} :
       \E recs \in {MapStore(Records, op.key, op.value)} :
        /\ Records' = recs
        /\ hist' = [stored |-> [hist.stored EXCEPT ![op.key] = @ \cup {Content(heap, op.value)}],
                    lastStore |-> [hist.lastStore EXCEPT ![op.key] = t],
                    during |-> Touch(recs, op.key)]
        /\ proc' = Finish(t, NoError, TRUE, Content(heap, op.value))
        /\ UNCHANGED <<heap, file, db, held, last, input, written, saved>>

\* ns.Destroy(key)
ThreadDestroy(t) ==
    /\ In(t, "Destroy", "call")
    /\ \E recs \in {DestroyRecords(Records, Current(t).key)} :
        /\ Records' = recs
        /\ hist' = [hist EXCEPT !.during = Touch(recs, Current(t).key)]
        /\ proc' = Finish(t, NoError, TRUE, Content(heap, ZeroRecord))
        /\ UNCHANGED <<heap, file, db, held, last, input, written, saved>>

\* ns.saveToFile(location): os.Create truncates the file
ThreadSaveCreate(t) ==
    /\ In(t, "Save", "call")
    /\ file' = EmptyFile
    /\ proc' = [proc EXCEPT ![t].pc = "range", ![t].snap = NoSnapshot]
    /\ hist' = [hist EXCEPT !.during = [k \in ThreadKeys |-> {Holds(Records, k)}]]
    /\ UNCHANGED <<Records, heap, db, held, last, input, written, saved>>

\* the callback of Range returns false: the first key visited is the last
RangeVisit_StopsAfterFirst(data, recs, key) ==
    IF key \in DOMAIN recs /\ data = EmptyMap
    THEN [k \in {key} |-> recs[key]]
    ELSE data

\* one call of the callback of ns.Records.Range: data[key] = value
RangeVisit(data, recs, key) ==
    IF key \in DOMAIN recs
    THEN [k \in DOMAIN data \cup {key} |-> IF k = key THEN recs[key] ELSE data[k]]
    ELSE data

\* Range comes to a key it has not visited; a key that holds nothing then is
\* not handed to the callback
ThreadSaveRange(t, key) ==
    /\ In(t, "Save", "range")
    /\ key \in Named
    /\ key \notin proc[t].snap.visited
    /\ proc' = [proc EXCEPT ![t].snap =
                    [data |-> RangeVisit(@.data, Records, key),
                     visited |-> @.visited \cup {key}]]
    /\ UNCHANGED <<Records, heap, file, db, held, last, input, written, saved, hist>>

\* encoder.Encode(data), then the deferred Flush and Close
ThreadSaveEncode(t) ==
    /\ In(t, "Save", "range")
    /\ proc[t].snap.visited = Named
    /\ \E s \in {saveToFile(proc[t].snap.data, heap, file, "none")} :
        /\ file' = s.file
        /\ proc' = Finish(t, s.err, s.err = NoError, Content(heap, ZeroRecord))
        /\ UNCHANGED <<Records, heap, db, held, last, input, written, saved, hist>>

\* ------------------------------------------------------------ programs
\* the valid records goroutines write: the empty or the longest payload,
\* under either media type
ValidInputs ==
    {[bytes |-> b, ct |-> ct] :
        b \in SomeByteSeqs, ct \in {<<"t", "/", "p">>, <<"a", "/", "j", ";">>}}

\* fmt.Sprintf("Value_%d", i): goroutines next to each other write records
\* that differ in payload and in media type
ValueOf(t) ==
    [bytes |-> [i \in 1..(t % (MaxBytes + 1)) |-> 1],
     ct |-> IF t % 2 = 1 THEN <<"t", "/", "p">> ELSE <<"a", "/", "j", ";">>]

\* goroutine t builds its payload in an array of its own
SliceOf(t, b) == [nil |-> FALSE, arr |-> IF b = <<>> THEN 0 ELSE t]
WriteOp(t, key, in) == Op("Write", key, NabiaRecord(SliceOf(t, in.bytes), in.ct), in.bytes)
ReadOp(key) == Op("Read", key, ZeroRecord, <<>>)
DestroyOp(key) == Op("Destroy", key, ZeroRecord, <<>>)
ExistsOp(key) == Op("Exists", key, ZeroRecord, <<>>)
SaveOp == Op("Save", "", ZeroRecord, <<>>)

\* Write, Read, Destroy, Exists on the goroutine's own key
OwnKey(t) ==
    <<WriteOp(t, KeyName(t), ValueOf(t)), ReadOp(KeyName(t)),
      DestroyOp(KeyName(t)), ExistsOp(KeyName(t))>>

\* every goroutine on its own key
DistinctKeys == {[t \in Threads |-> OwnKey(t)]}

\* on one key: a writer, a writer or a destroyer, and then goroutines that
\* write, have a Write refused, or read twice
OnSameKey(t) ==
    IF t = 1 THEN {<<WriteOp(1, "A", a)>> : a \in ValidInputs}
    ELSE IF t = 2
    THEN {<<WriteOp(2, "A", a)>> : a \in ValidInputs} \cup {<<DestroyOp("A")>>}
    ELSE {<<WriteOp(t, "A", ValueOf(t))>>,
          <<WriteOp(t, "A", [bytes |-> <<>>, ct |-> <<"n", "-", "t">>])>>,
          <<ReadOp("A"), ReadOp("A")>>}

SameKey ==
    {f \in [Threads -> UNION {OnSameKey(t) : t \in Threads}] :
        \A t \in Threads : f[t] \in OnSameKey(t)}

\* a saveToFile next to goroutines that write and destroy
NextToSave(t) ==
    IF t = 1 THEN {<<SaveOp>>}
    ELSE IF t = 2
    THEN {<<WriteOp(2, "A", a)>> : a \in ValidInputs}
         \cup {<<WriteOp(2, "A", ValueOf(2)), DestroyOp("A")>>}
    ELSE {<<WriteOp(t, k, ValueOf(t))>> : k \in StoredKeys}

WhileSaving ==
    {f \in [Threads -> UNION {NextToSave(t) : t \in Threads}] :
        \A t \in Threads : f[t] \in NextToSave(t)}

Programs == DistinctKeys \cup SameKey \cup WhileSaving

\* the arrays the goroutines built their payloads in
HeapOf(progs) ==
    [a \in Arrays |->
        IF a \in Threads /\ \E i \in DOMAIN progs[a] : progs[a][i].value.RawData.arr = a
        THEN progs[a][CHOOSE i \in DOMAIN progs[a] : progs[a][i].value.RawData.arr = a].bytes
        ELSE <<>>]

\* an empty store, and goroutines about to make their calls
InitThreads ==
    \E progs \in Programs :
        /\ Records = EmptyMap
        /\ heap = HeapOf(progs)
        /\ file = GobFile(GobEncode(heap, EmptyMap))
        /\ db = "open"
        /\ held = ZeroRecord
        /\ last = Call("NewNabiaDB", "", NoError, TRUE)
        /\ input = Content(heap, ZeroRecord)
        /\ written = [k \in Keys |-> Absent]
        /\ saved = [valid |-> TRUE, data |-> ContentMap(heap, EmptyMap)]
        /\ proc = [t \in Threads |-> Goroutine(progs[t])]
        /\ hist = NoHistory

\* ------------------------------------------------------------ behaviours
\* the store and the callers that share memory with it
NextStore ==
    \/ \E key \in Keys : DoExists(key)
    \/ \E key \in Keys : DoRead(key, TRUE)
    \/ \E in \in SomeWrites : DoWriteNew(in.key, in.data, in.ct, TRUE, FALSE)
    \/ \E key \in Keys : DoWriteHeld(key)
    \/ \E key \in Keys : DoDestroy(key)
    \/ \E i \in 1..MaxBytes, b \in Bytes : MutateBytes(i, b)
    \/ \E ct \in ContentTypes : MutateContentType(ct)

SpecStore == Init /\ [][NextStore]_vars

\* every Write call, its argument logged
NextWrite ==
    \E key \in Keys, data \in Payloads, ct \in ContentTypes :
        DoWriteNew(key, data, ct, FALSE, TRUE)

SpecWrite == Init /\ [][NextWrite]_vars

\* the store and its snapshots, with callers that keep no record
Next ==
    \/ \E key \in Keys : DoExists(key)
    \/ \E key \in Keys : DoRead(key, FALSE)
    \/ \E in \in SomeWrites : DoWriteNew(in.key, in.data, in.ct, FALSE, FALSE)
    \/ \E key \in Keys : DoDestroy(key)
    \/ \E fault \in SaveFaults : DoSave(fault)
    \/ \E fault \in LoadFaults : DoLoad(fault)
    \/ \E fault \in NewFaults : DoNewNabiaDB(fault)
    \/ RemoveFile

Spec == Init /\ [][Next]_vars

\* goroutines that call the store concurrently
NextThreads ==
    \/ \E t \in Threads : ThreadExists(t)
    \/ \E t \in Threads : ThreadReadLoad(t)
    \/ \E t \in Threads : ThreadReadCopy(t)
    \/ \E t \in Threads : ThreadWriteCheck(t)
    \/ \E t \in Threads : ThreadWriteStore(t)
    \/ \E t \in Threads : ThreadDestroy(t)
    \/ \E t \in Threads : ThreadSaveCreate(t)
    \/ \E t \in Threads, key \in ThreadKeys : ThreadSaveRange(t, key)
    \/ \E t \in Threads : ThreadSaveEncode(t)

SpecThreads == InitThreads /\ [][NextThreads]_vars

\* ------------------------------------------------------------ the rules
\* The Validator rules as the specification words them, on the arguments of
\* a Write: the key, the payload and the media type.
BreaksEmptyKey(key) == key = ""
BreaksNilPayload(nil) == nil
BreaksEmptyContentType(ct) == Len(ct) = 0
\* ^[A-Za-z0-9]+/[A-Za-z0-9]+ : some prefix is letters-or-digits, "/",
\* letters-or-digits
BreaksInvalidContentType(ct) ==
    ~ \E i \in 1..Len(ct), j \in 1..Len(ct) :
        /\ i + 2 <= j
        /\ \A x \in 1..i : ct[x] \in Alnum
        /\ ct[i + 1] = "/"
        /\ \A x \in (i + 2)..j : ct[x] \in Alnum

BreaksARule(key, nil, ct) ==
    \/ BreaksEmptyKey(key)
    \/ BreaksNilPayload(nil)
    \/ BreaksEmptyContentType(ct)
    \/ BreaksInvalidContentType(ct)

\* the error of the first broken rule, in the order the specification gives
FirstFailure(key, nil, ct) ==
    CASE BreaksEmptyKey(key) -> ErrEmptyKey
      [] ~BreaksEmptyKey(key) /\ BreaksNilPayload(nil) -> ErrNilValue
      [] ~BreaksEmptyKey(key) /\ ~BreaksNilPayload(nil) /\ BreaksEmptyContentType(ct)
            -> ErrEmptyContentType
      [] ~BreaksEmptyKey(key) /\ ~BreaksNilPayload(nil) /\ ~BreaksEmptyContentType(ct)
            /\ BreaksInvalidContentType(ct) -> ErrInvalidContentType
      [] OTHER -> NoError

\* what Read(key) hands back, as a value
ReadBack(h, recs, key) == Content(h, Read(recs, key).record)

\* ------------------------------------------------------------ C1
\* C1: once Write(K, R) has succeeded and no other Write(K, _) or Destroy(K)
\* has taken effect since, Exists(K) is true and Read(K) succeeds with the
\* payload bytes and the media type of R.
WriteThenRead ==
    \A K \in Keys :
        written[K].by = "put" =>
            /\ K # ""
            /\ Exists(Records, K)
            /\ Read(Records, K).err = NoError
            /\ ReadBack(heap, Records, K) =
                  [nil |-> written[K].nil, bytes |-> written[K].bytes, ct |-> written[K].ct]

\* a Read of a key whose non-empty payload was written earlier has returned
WriteThenReadSeen ==
    /\ last.op = "Read"
    /\ last.err = NoError
    /\ written[last.key].by = "put"
    /\ written[last.key].bytes # <<>>
    /\ Content(heap, held).bytes = written[last.key].bytes

\* ------------------------------------------------------------ C2
\* C2: a Write that fails validation returns an error and leaves the whole
\* key -> Record mapping as it was.
FailedWriteChangesNothing ==
    [][ (last'.op = "Write" /\ BreaksARule(last'.key, input'.nil, input'.ct))
        => /\ last'.err # NoError
           /\ ContentMap(heap', Records') = ContentMap(heap, Records)
      ]_vars

\* a Write on a key that holds a record has been refused, and the record is there
FailedWriteSeen ==
    /\ last.op = "Write"
    /\ BreaksARule(last.key, input.nil, input.ct)
    /\ last.had
    /\ last.key \in DOMAIN Records
    /\ Cardinality(DOMAIN Records) = 2

\* ------------------------------------------------------------ C3
\* C3: Write returns the error of the first broken rule in the order EmptyKey,
\* NilPayload, EmptyContentType, InvalidContentType, and no error when no
\* rule is broken.
FirstFailingRuleWins ==
    last.op = "Write" => last.err = FirstFailure(last.key, input.nil, input.ct)

\* a Write that breaks NilPayload and EmptyContentType under a non-empty key
\* has returned
FirstFailingRuleSeen ==
    /\ last.op = "Write"
    /\ ~BreaksEmptyKey(last.key)
    /\ BreaksNilPayload(input.nil)
    /\ BreaksEmptyContentType(input.ct)

\* ------------------------------------------------------------ C4
ValidRecord(c) ==
    /\ ~BreaksNilPayload(c.nil)
    /\ ~BreaksEmptyContentType(c.ct)
    /\ ~BreaksInvalidContentType(c.ct)

\* C4: in every reachable state every key of the store is non-empty and maps
\* to a Record that satisfies all Validator rules.
StoredRecordsValid ==
    \A k \in DOMAIN Records :
        ~BreaksEmptyKey(k) /\ ValidRecord(Content(heap, Records[k]))

\* ------------------------------------------------------------ C5
\* C5: for a store that holds only valid Records, Save followed by the
\* construction of a store against the same target (no call failing) yields
\* the same keys, each with the same payload and the same media type.
SaveLoadRoundTrip ==
    [][ ( /\ last'.op = "NewNabiaDB"
          /\ saved.valid
          /\ \A k \in DOMAIN saved.data : ValidRecord(saved.data[k])
          /\ DoNewNabiaDB("none") )
        => ContentMap(heap', Records') = saved.data
      ]_vars

\* ------------------------------------------------------------ C6
\* the construction meets a target it cannot read or decode, or cannot write
\* the first snapshot
ConstructionFails(fault) ==
    \/ file.kind \in {"empty", "partial"} /\ fault # "stat"
    \/ file.kind = "gob" /\ fault \in {"open", "read"}
    \/ file.kind = "absent" /\ fault \in {"save", "flush", "short"}

\* C6: when the target exists but cannot be read or decoded, or the first
\* snapshot cannot be written, the constructor returns the error and no store.
ConstructorReportsFailure ==
    [][ \A fault \in NewFaults :
          (last'.op = "NewNabiaDB" /\ ConstructionFails(fault) /\ DoNewNabiaDB(fault))
            => db' = "failed" /\ last'.err \notin {NoError, Fatal}
      ]_vars

\* ------------------------------------------------------------ C7
\* C7: what Read(K) returns changes only through Write(K, _), Destroy(K) or
\* hydration; assignments to a Record a caller read or wrote change nothing.
StoredStateIsolated ==
    [][ \A K \in StoredKeys :
          ( \/ Exists(Records', K) # Exists(Records, K)
            \/ ReadBack(heap', Records', K) # ReadBack(heap, Records, K) )
          => \/ last'.op \in {"Write", "Destroy"} /\ last'.key = K
             \/ last'.op \in {"loadFromFile", "NewNabiaDB"}
      ]_vars

\* ------------------------------------------------------------ C8
\* C8: for every key that is not in the store (never written and not
\* hydrated, or destroyed since), Exists is false and Read fails with the
\* not-found error; a store constructed against no target holds no key.
AbsentKeysNotFound ==
    \A K \in Keys :
        written[K].by = "none" =>
            /\ ~Exists(Records, K)
            /\ Read(Records, K).err = ErrNotExist

\* a Read of a destroyed or never written key has failed, next to a present key
AbsentKeysNotFoundSeen ==
    /\ last.op = "Read"
    /\ last.key \in StoredKeys
    /\ written[last.key].by = "none"
    /\ last.err = ErrNotExist
    /\ Records # EmptyMap

\* ------------------------------------------------------------ C9
\* C9: Destroy(K) never fails; after it Exists(K) is false whether or not K
\* was present, and a second Destroy(K) changes nothing.
DestroyIsIdempotent ==
    last.op = "Destroy" =>
        /\ last.err = NoError
        /\ ~Exists(Records, last.key)
        /\ DestroyRecords(Records, last.key) = Records

\* a Destroy of a key that held a record has returned
DestroyIsIdempotentSeen ==
    /\ last.op = "Destroy"
    /\ last.had
    /\ last.key \notin DOMAIN Records

\* ------------------------------------------------------------ C10
\* C10: a successful Write on a key that holds a Record replaces it whole:
\* Read returns the payload and the media type of the new Record.
OverwriteReplaces ==
    (last.op = "Write" /\ last.ok /\ last.had) =>
        /\ Read(Records, last.key).err = NoError
        /\ ReadBack(heap, Records, last.key) = input

\* a Write has replaced the Record of a key
OverwriteReplacesSeen ==
    /\ last.op = "Write"
    /\ last.ok
    /\ last.had
    /\ input.bytes # <<>>

\* ------------------------------------------------------------ C11
\* the mapping a target holds: what its snapshot decodes to
SnapshotMapping(f) ==
    [k \in DOMAIN f.data |->
        [nil |-> "RawData" \notin f.data[k].fields,
         bytes |-> IF "RawData" \in f.data[k].fields THEN f.data[k].RawData ELSE <<>>,
         ct |-> IF "ContentType" \in f.data[k].fields THEN f.data[k].ContentType ELSE <<>>]]

\* C11: after a construction that succeeded the target exists; a target that
\* did not exist holds a complete empty snapshot, and a second construction
\* against it succeeds with an empty store; against a target that existed the
\* store's mapping is the mapping the target holds.
ConstructionPolicy ==
    [][ (last'.op = "NewNabiaDB" /\ last'.err = NoError)
        => /\ file'.kind # "absent"
           /\ file.kind = "absent" =>
                /\ file' = GobFile(GobEncode(heap', EmptyMap))
                /\ NewNabiaDB(file', heap', "none").err = NoError
                /\ NewNabiaDB(file', heap', "none").Records = EmptyMap
           /\ file.kind # "absent" =>
                /\ file.kind = "gob"
                /\ ContentMap(heap', Records') = SnapshotMapping(file)
      ]_vars

\* ------------------------------------------------------------ C15
\* C15: a Save leaves in a destination that held a complete snapshot either
\* that snapshot or the complete new one, also when it fails part-way.
SaveIsAtomic ==
    [][ (last'.op = "saveToFile" /\ file.kind = "gob")
        => \/ file' = file
           \/ file' = GobFile(GobEncode(heap, Records))
      ]_vars

\* ------------------------------------------------------------ C16
\* C16: Save returns no error only when the complete snapshot of the store
\* has reached the destination; a failure to create, write or flush is
\* returned.
SaveReportsFailure ==
    (last.op = "saveToFile" /\ last.err = NoError)
        => file = GobFile(GobEncode(heap, Records))

\* ------------------------------------------------------------ C18
\* C18: a Load whose source does not exist, cannot be read or cannot be
\* decoded returns an error and leaves the store's mapping as it was.
FailedLoadStoresNothing ==
    [][ last'.op = "loadFromFile"
        => /\ file.kind # "gob" => last'.err # NoError
           /\ \A fault \in LoadFaults \ {"none"} : DoLoad(fault) => last'.err # NoError
           /\ last'.err # NoError =>
                ContentMap(heap', Records') = ContentMap(heap, Records)
      ]_vars

\* a Load has failed while reading a snapshot of two keys into a store that
\* holds a record
FailedLoadSeen ==
    /\ last.op = "loadFromFile"
    /\ last.err = ErrRead
    /\ Cardinality(DOMAIN file.data) = 2
    /\ Records # EmptyMap

\* ------------------------------------------------------------ C19
\* C19: a successful Write(K, R) and a Destroy(K) leave the presence and the
\* Record of every other key as they were; Exists, Read and Save leave the
\* whole mapping as it was.
FrameOfOperations ==
    [][ /\ (last'.op = "Destroy" \/ (last'.op = "Write" /\ last'.ok)) =>
              \A K \in StoredKeys \ {last'.key} :
                  /\ Exists(Records', K) = Exists(Records, K)
                  /\ ReadBack(heap', Records', K) = ReadBack(heap, Records, K)
        /\ last'.op \in {"Exists", "Read", "saveToFile"} =>
              ContentMap(heap', Records') = ContentMap(heap, Records)
      ]_vars

\* a Destroy has removed a key from a store that still holds the other key
FrameOfOperationsSeen ==
    /\ last.op = "Destroy"
    /\ last.had
    /\ last.key \notin DOMAIN Records
    /\ Records # EmptyMap

\* ------------------------------------------------------------ C12
AllDone == \A t \in Threads : ~Running(t)

\* goroutine t runs Write, Read, Destroy, Exists on a key no other goroutine
\* names
OnItsOwnKey(t) ==
    /\ Len(proc[t].prog) = 4
    /\ <<proc[t].prog[1].op, proc[t].prog[2].op, proc[t].prog[3].op, proc[t].prog[4].op>>
          = <<"Write", "Read", "Destroy", "Exists">>
    /\ \A i \in 2..4 : proc[t].prog[i].key = proc[t].prog[1].key
    /\ \A u \in Threads \ {t} : \A i \in DOMAIN proc[u].prog :
          proc[u].prog[i].key # proc[t].prog[1].key

\* C12: goroutines that each Write, Read and Destroy their own key: in every
\* interleaving each Read succeeds with the payload and media type the
\* goroutine wrote, each Exists after the Destroy is false, and once all have
\* finished none of the keys is in the store.
DistinctKeysDoNotInterfere ==
    \A t \in Threads :
        OnItsOwnKey(t) =>
            /\ Len(proc[t].rets) >= 1 => proc[t].rets[1].err = NoError
            /\ Len(proc[t].rets) >= 2 =>
                  /\ proc[t].rets[2].err = NoError
                  /\ proc[t].rets[2].value =
                        [nil |-> FALSE, bytes |-> proc[t].prog[1].bytes,
                         ct |-> proc[t].prog[1].value.ContentType]
            /\ Len(proc[t].rets) >= 4 => ~proc[t].rets[4].ok
            /\ AllDone => proc[t].prog[1].key \notin DOMAIN Records

\* two goroutines have run to the end on their own keys, the second one
\* reading while the key of the first was in the store
DistinctKeysSeen ==
    /\ AllDone
    /\ OnItsOwnKey(1)
    /\ OnItsOwnKey(2)
    /\ proc[1].rets[2].value.bytes # <<>>
    /\ proc[1].rets[2].value # proc[2].rets[2].value

\* ------------------------------------------------------------ C13
\* C13: a Read that runs next to Writes and Destroys of its key fails with
\* the not-found error or returns a payload and a media type that one
\* successful Write of that key passed together.
NoTornRead ==
    \A t \in Threads : \A i \in DOMAIN proc[t].rets :
        proc[t].rets[i].op = "Read" =>
            \/ proc[t].rets[i].err = ErrNotExist
            \/ /\ proc[t].rets[i].err = NoError
               /\ proc[t].rets[i].value \in hist.stored[proc[t].rets[i].key]

\* two Reads of one goroutine have returned the Records of two Writes that
\* share neither payload nor media type
NoTornReadSeen ==
    \E t \in Threads :
        /\ Len(proc[t].rets) = 2
        /\ proc[t].rets[1].op = "Read"
        /\ proc[t].rets[1].err = NoError
        /\ proc[t].rets[2].err = NoError
        /\ proc[t].rets[1].value.bytes # proc[t].rets[2].value.bytes
        /\ proc[t].rets[1].value.ct # proc[t].rets[2].value.ct

\* ------------------------------------------------------------ C14
\* the goroutines' calls on key K are valid Writes only, at least one
OnlyWrites(K) ==
    /\ \E t \in Threads : \E i \in DOMAIN proc[t].prog : proc[t].prog[i].key = K
    /\ \A t \in Threads : \A i \in DOMAIN proc[t].prog :
          proc[t].prog[i].key = K =>
              /\ proc[t].prog[i].op = "Write"
              /\ ~BreaksARule(K, proc[t].prog[i].value.RawData.nil,
                              proc[t].prog[i].value.ContentType)

\* C14: valid Writes that race on a key with no Destroy all succeed, and when
\* all have returned the key holds the Record of the Write whose Store step
\* came last.
LastWriterWins ==
    \A K \in ThreadKeys :
        (AllDone /\ OnlyWrites(K)) =>
            /\ \A t \in Threads : \A i \in DOMAIN proc[t].rets :
                  proc[t].rets[i].key = K => proc[t].rets[i].err = NoError
            /\ hist.lastStore[K] \in Threads
            /\ K \in DOMAIN Records
            /\ \E i \in DOMAIN proc[hist.lastStore[K]].prog :
                  /\ proc[hist.lastStore[K]].prog[i].key = K
                  /\ Records[K] = proc[hist.lastStore[K]].prog[i].value

\* three Writes of three different Records have raced on a key, and the Store
\* step of the first goroutine came last
LastWriterWinsSeen ==
    /\ AllDone
    /\ OnlyWrites("A")
    /\ Cardinality(hist.stored["A"]) = 3
    /\ hist.lastStore["A"] = 1

\* ------------------------------------------------------------ C17
\* goroutine t made one call, a saveToFile, and it has returned
Saved(t) ==
    /\ Len(proc[t].prog) = 1
    /\ proc[t].prog[1].op = "Save"
    /\ Len(proc[t].rets) = 1

\* C17: the snapshot a Save writes next to writers is the encoding of a map
\* in which every entry is a Record its key held at some instant of the Save,
\* every key that held one Record from the start to the end of the Save is
\* there with it, and with no writer at work the map is the store's mapping.
SnapshotOfHeldRecords ==
    \A t \in Threads :
        Saved(t) =>
            /\ file = GobFile(GobEncode(heap, proc[t].snap.data))
            /\ \A k \in DOMAIN proc[t].snap.data :
                  [present |-> TRUE, record |-> proc[t].snap.data[k]] \in hist.during[k]
            /\ \A k \in ThreadKeys : \A h \in hist.during[k] :
                  (hist.during[k] = {h} /\ h.present) =>
                      /\ k \in DOMAIN proc[t].snap.data
                      /\ proc[t].snap.data[k] = h.record
                      /\ k \in DOMAIN file.data
                      /\ file.data[k] = GobEncodeRecord(heap, h.record)
            /\ (\A k \in ThreadKeys : Cardinality(hist.during[k]) = 1) =>
                  \A k \in ThreadKeys :
                      k \in DOMAIN file.data <=> \E h \in hist.during[k] : h.present

\* a Save has returned a snapshot of two keys, one of them written while the
\* Save ran
SnapshotOfHeldRecordsSeen ==
    /\ Saved(1)
    /\ DOMAIN file.data = StoredKeys
    /\ \E k \in StoredKeys :
          /\ Cardinality(hist.during[k]) = 2
          /\ file.data[k].RawData # <<>>
    /\ \E k \in StoredKeys : Cardinality(hist.during[k]) = 1

====
